---- MODULE Spec2Model ----
(***************************************************************************)
(* transmission-proxy: a reverse proxy in front of a Transmission daemon.  *)
(* A request on the RPC path is parsed (jrpc.FromRequest), validated       *)
(* against the method/argument whitelist (transmission.MethodsValidator),  *)
(* re-serialized and forwarded (proxy); every failure is answered by the   *)
(* response.Responder.  Requests on the web path and on "/" are forwarded  *)
(* as they are.                                                            *)
(*                                                                         *)
(* Strings that the code only compares or passes on are TLA+ strings.      *)
(* Strings the code takes prefixes of (URL paths, filesystem locations)    *)
(* are sequences of tokens: the separator "/" and the names between        *)
(* separators.  DOWNLOAD_PREFIX ends with "/" (main exits otherwise), so   *)
(* strings.HasPrefix on the characters and on the tokens agree.            *)
(* An error message is the chain of its parts, which the code joins        *)
(* with ": " (fmt.Errorf("...: %w")).                                      *)
(***************************************************************************)
EXTENDS Integers, Sequences, FiniteSets, TLC

\* ------------------------------------------------------------------ bounds
\* number of inbound requests handled in one behaviour
NumReqs == 2
\* largest number of keys in the "arguments" object of an inbound RPC body
MaxArgs == 2

Reqs == 1..NumReqs

\* ------------------------------------------------------- program constants
StatusBadRequest == 400
StatusNotFound == 404
StatusInternalServerError == 500
StatusBadGateway == 502

\* ------------------------------------------------------------------ values
\* A decoded JSON value (the `any` of map[string]any).
Str(s) == [kind |-> "string", str |-> s, num |-> 0]
Num(n) == [kind |-> "number", str |-> <<>>, num |-> n]
Bool(b) == [kind |-> "bool", str |-> <<>>, num |-> IF b THEN 1 ELSE 0]

\* strings.HasPrefix(s, prefix)
HasPrefix(s, prefix) ==
    /\ Len(prefix) <= Len(s)
    /\ \A i \in 1..Len(prefix) : s[i] = prefix[i]

\* ------------------------------------------------------- error vocabulary
NoError == <<>>
ErrUnknownMethod == <<"unknown method">>
ErrTorrentLocationWrongType == <<"must be string">>
ErrTorrentForbiddenLocation == <<"forbidden location">>
\* forbiddenField.Error()
ErrForbiddenField == <<"forbidden field">>

\* fmt.Errorf(msg + ": %w", err)
Wrap(msg, err) == <<msg>> \o err

\* An error with its loggable attributes (logger.WithAttributes).
Err(msg, method, field) == [msg |-> msg, method |-> method, field |-> field]
Nil == Err(NoError, "", "")

\* ------------------------------------------------------- field validators
\* (*Any).Validate
Any_Validate(key, value) == NoError

\* PrefixedLocation.Validate without the prefix test: any string passes.
PrefixedLocation_TypeOnly(requiredPrefix, key, value) ==
    IF value.kind = "string" THEN NoError ELSE ErrTorrentLocationWrongType

\* (*PrefixedLocation).Validate with RequiredPrefix = requiredPrefix
PrefixedLocation_Validate(requiredPrefix, key, value) ==
    IF value.kind = "string"
    THEN IF ~HasPrefix(value.str, requiredPrefix)
         THEN ErrTorrentForbiddenLocation
         ELSE NoError
    ELSE ErrTorrentLocationWrongType

\* A dispatch that runs the location rule on every key.
ArgumentValidator_AllPrefixed(v, requiredPrefix, key, value) ==
    PrefixedLocation_Validate(requiredPrefix, key, value)

\* An ArgumentValidator is "Any" or "PrefixedLocation"; the dynamic dispatch
\* v.Validate(key, val) of MethodArgumentsValidator.Validate.
ArgumentValidator_Validate(v, requiredPrefix, key, value) ==
    IF v = "PrefixedLocation"
    THEN PrefixedLocation_Validate(requiredPrefix, key, value)
    ELSE Any_Validate(key, value)

\* --------------------------------------------------- per-method whitelists
\* A MethodArgumentsValidator: the allowed keys with their validators, and
\* ErrorOnUnknown (left at its zero value, false, by every table below).
ArgsValidator(anyKeys, locKeys) ==
    [Arguments |-> [k \in anyKeys \cup locKeys |->
                       IF k \in locKeys THEN "PrefixedLocation" ELSE "Any"],
     ErrorOnUnknown |-> FALSE]

EmptyMethod == ArgsValidator({}, {})

MethodTorrentAction == ArgsValidator({"ids"}, {})

NewMethodTorrentSet ==
    ArgsValidator({"bandwidthPriority", "downloadLimit", "downloadLimited",
                   "files-unwanted", "files-wanted", "group",
                   "honorsSessionLimit: &Any{}s", "ids", "labels",
                   "peer-limit", "priority-high", "priority-low",
                   "priority-normal", "queuePosition", "seedIdleLimit",
                   "seedIdleMode", "seedRatioLimit", "seedRatioMode",
                   "sequentialDownload", "trackerList", "uploadLimit",
                   "uploadLimited"},
                  {"location"})

MethodTorrentGet == ArgsValidator({"ids", "fields", "format"}, {})

NewMethodTorrentAdd ==
    ArgsValidator({"cookies", "filename", "labels", "metainfo", "paused",
                   "peer-limit", "bandwidthPriority", "files-wanted",
                   "files-unwanted", "priority-high", "priority-low",
                   "priority-normal"},
                  {"download-dir"})

MethodTorrentRemove == ArgsValidator({"ids", "delete-local-data"}, {})

NewMethodTorrentSetLocation == ArgsValidator({"ids", "move"}, {"location"})

NewMethodSessionSet ==
    ArgsValidator({"alt-speed-down", "alt-speed-enabled",
                   "alt-speed-time-begin", "alt-speed-time-day",
                   "alt-speed-time-enabled", "alt-speed-time-end",
                   "alt-speed-up", "blocklist-enabled", "blocklist-url",
                   "cache-size-mb", "default-trackers", "dht-enabled",
                   "download-queue-enabled", "download-queue-size",
                   "encryption", "idle-seeding-limit-enabled",
                   "idle-seeding-limit", "lpd-enabled", "peer-limit-global",
                   "peer-limit-per-torrent", "pex-enabled",
                   "port-forwarding-enabled", "queue-stalled-enabled",
                   "queue-stalled-minutes", "rename-partial-files",
                   "seed-queue-enabled", "seed-queue-size", "seedRatioLimit",
                   "seedRatioLimited", "speed-limit-down-enabled",
                   "speed-limit-down", "speed-limit-up-enabled",
                   "speed-limit-up", "start-added-torrents",
                   "trash-original-torrent-files", "utp-enabled"},
                  {"download-dir"})

MethodSessionGet == ArgsValidator({"fields"}, {})

MethodPortTest == ArgsValidator({"ipProtocol"}, {})

MethodFreeSpace == ArgsValidator({"path"}, {})

MethodGroupSet ==
    ArgsValidator({"honorsSessionLimits", "name", "speed-limit-down-enabled",
                   "speed-limit-down", "speed-limit-up-enabled",
                   "speed-limit-up"}, {})

MethodGroupGet == ArgsValidator({"group"}, {})

\* The method names DefaultMethodsValidator registers.
RegisteredMethods ==
    {"torrent-start", "torrent-start-now", "torrent-stop", "torrent-verify",
     "torrent-reannounce", "torrent-set", "torrent-get", "torrent-add",
     "torrent-remove", "torrent-set-location", "session-set", "session-get",
     "session-stats", "blocklist-update", "port-test", "session-close",
     "queue-move-top", "queue-move-up", "queue-move-down",
     "queue-move-bottom", "free-space", "group-set", "group-get"}

\* DefaultMethodsValidator(requiredLocPrefix).Methods; the prefix is handed
\* to the field validators when they run (see ArgumentValidator_Validate).
DefaultMethodsValidator ==
    [m \in RegisteredMethods |->
        CASE m \in {"torrent-start", "torrent-start-now", "torrent-stop",
                    "torrent-verify", "torrent-reannounce", "queue-move-top",
                    "queue-move-up", "queue-move-down", "queue-move-bottom"}
                 -> MethodTorrentAction
          [] m = "torrent-set" -> NewMethodTorrentSet
          [] m = "torrent-get" -> MethodTorrentGet
          [] m = "torrent-add" -> NewMethodTorrentAdd
          [] m = "torrent-remove" -> MethodTorrentRemove
          [] m = "torrent-set-location" -> NewMethodTorrentSetLocation
          [] m = "session-set" -> NewMethodSessionSet
          [] m = "session-get" -> MethodSessionGet
          [] m \in {"session-stats", "blocklist-update", "session-close"}
                 -> EmptyMethod
          [] m = "port-test" -> MethodPortTest
          [] m = "free-space" -> MethodFreeSpace
          [] m = "group-set" -> MethodGroupSet
          [] m = "group-get" -> MethodGroupGet]

\* A registry a caller of the package can build from the same whitelists:
\* MethodsValidator{Methods: ...} with ErrorOnUnknown set in every
\* MethodArgumentsValidator, the policy that rejects unknown keys.
StrictMethodsValidator ==
    [m \in RegisteredMethods |->
        [DefaultMethodsValidator[m] EXCEPT !.ErrorOnUnknown = TRUE]]

\* ------------------------------------------------------------------ inputs
\* Configured paths (the defaults of WEB_PATH and RPC_PATH).
webPath == <<"/", "transmission", "/", "web", "/">>
rpcPath == <<"/", "transmission", "/", "rpc">>
rootPath == <<"/">>

\* The DOWNLOAD_PREFIX values the model is started with: each begins and ends
\* with "/", as main requires.
DownloadPrefixes == {<<"/", "d", "/">>}

\* A body.  kind "json": a JSON object that decodes into jrpc.Request,
\* `fields` being the names of its top-level members and Method, Arguments
\* and Tag the values of the members `method`, `arguments` and `tag` (the
\* zero value for a member that is absent); kind "invalid": bytes
\* json.Unmarshal rejects; kind "raw": the opaque body of a request that is
\* not parsed; kind "empty": a body that has been read to its end.
\*
\* JsonBody is the object json.Marshal writes for a jrpc.Request: `method`
\* always, `arguments` unless the mapping is empty and `tag` unless it is 0
\* (omitempty), and no other member (Context is tagged "-").
JsonBody(method, arguments, tag) ==
    [kind |-> "json", Method |-> method, Arguments |-> arguments, Tag |-> tag,
     fields |-> {"method"}
                \cup (IF arguments # <<>> THEN {"arguments"} ELSE {})
                \cup (IF tag # 0 THEN {"tag"} ELSE {})]
InvalidBody ==
    [kind |-> "invalid", Method |-> "", Arguments |-> <<>>, Tag |-> 0,
     fields |-> {}]
RawBody ==
    [kind |-> "raw", Method |-> "", Arguments |-> <<>>, Tag |-> 0,
     fields |-> {}]
EmptyBody ==
    [kind |-> "empty", Method |-> "", Arguments |-> <<>>, Tag |-> 0,
     fields |-> {}]

\* Method names of the inbound RPC bodies: the four methods that carry a
\* location argument, one method without arguments, and a name that
\* DefaultMethodsValidator does not register.
InputMethods ==
    {"torrent-set", "torrent-add", "torrent-set-location", "session-set",
     "session-stats", "torrent-rename-path"}

\* Argument keys of the inbound RPC bodies.
InputKeys ==
    {"location", "download-dir", "ids", "peer-port-random-on-start",
     "incomplete-dir", "script-torrent-done-filename", "seedRatioLimit"}

\* Values of a location-like argument: inside the prefix, outside it, inside
\* it by its characters but leaving it through "..", and not a string.
LocationValues ==
    {Str(<<"/", "d", "/", "x">>), Str(<<"/", "e">>),
     Str(<<"/", "d", "/", "..", "/", "e">>), Num(123)}

OtherValues == {Num(1), Str(<<"/", "e">>)}

ValuesOf(key) ==
    IF key \in {"location", "download-dir"} THEN LocationValues ELSE OtherValues

\* All argument mappings over `keys` with at most `n` keys.
ArgMaps(keys, n) ==
    UNION {[ks -> LocationValues \cup OtherValues] :
              ks \in {x \in SUBSET keys : Cardinality(x) <= n}}

InputTags == {0, 7}

RpcBodies ==
    {InvalidBody} \cup
    {JsonBody(m, a, t) :
        m \in InputMethods,
        a \in {f \in ArgMaps(InputKeys, MaxArgs) :
                  \A k \in DOMAIN f : f[k] \in ValuesOf(k)},
        t \in InputTags}

\* Names of top-level members an inbound JSON object can have besides the
\* three jrpc.Request decodes.
OtherFields == {"location"}

\* Inbound JSON objects with any choice of top-level members: `method`,
\* `arguments` and `tag` present or absent, an empty `arguments`, a `tag` of
\* 0, and members that jrpc.Request does not have.
ObjectBodies ==
    UNION {
        {[kind |-> "json", Method |-> b.m, Arguments |-> b.a, Tag |-> b.t,
          fields |-> f] :
            f \in {x \in SUBSET ({"method", "arguments", "tag"}
                                 \cup OtherFields) :
                      /\ "method" \in x <=> b.m # ""
                      /\ b.a # <<>> => "arguments" \in x
                      /\ b.t # 0 => "tag" \in x}} :
        b \in [m : {"torrent-set", "session-stats", ""},
               a : {x \in ArgMaps({"location", "incomplete-dir", "ids"},
                                 MaxArgs) :
                       \A k \in DOMAIN x : x[k] \in ValuesOf(k)},
               t : InputTags]}

\* The web path without its last separator.
webPathNoSlash == <<"/", "transmission", "/", "web">>

\* A path that begins with the web path and leaves it through ".." for the
\* RPC path.
webPathToRpc == webPath \o <<"..", "/", "rpc">>

InputPaths ==
    {webPath, webPath \o <<"index.html">>, rootPath, <<"/", "x">>,
     webPathNoSlash, webPathToRpc}

\* http.Header: a mapping from a header name to the list of its values.
\* Header.Add appends a value to the list of the name.
HeaderAdd(header, name, value) ==
    [h \in DOMAIN header \cup {name} |->
        IF h = name
        THEN (IF h \in DOMAIN header THEN header[h] ELSE <<>>) \o <<value>>
        ELSE header[h]]

\* Header.Set replaces the list of the name by the one value.
HeaderSet(header, name, value) ==
    [h \in DOMAIN header \cup {name} |->
        IF h = name THEN <<value>> ELSE header[h]]

\* A Del that leaves the header as it is.
HeaderDel_Keep(header, name) == header

\* Header.Del removes the name.
HeaderDel(header, name) == [h \in DOMAIN header \ {name} |-> header[h]]

NoHeader == <<>>

\* Headers of the inbound requests: those of a request without a body, and
\* those of a request that announces the length of its body.
PlainHeader == HeaderSet(NoHeader, "Accept", "*/*")
LengthHeader ==
    HeaderSet(HeaderSet(NoHeader, "X-Transmission-Session-Id", "s"),
              "Content-Length", "42")
InputHeaders == {PlainHeader, LengthHeader}

HttpMethods == {"GET", "POST", "CONNECT"}

\* An inbound *http.Request: Method, URL.Path, Header and Body.
Request(method, path, header, body) ==
    [method |-> method, path |-> path, header |-> header, body |-> body]

\* The inbound requests of the single-request specification.
Inputs ==
    {Request("GET", p, PlainHeader, RawBody) : p \in InputPaths} \cup
    {Request("POST", rpcPath, LengthHeader, b) : b \in RpcBodies}

\* The inbound requests of the specification of the forwarded body: the
\* objects above on the RPC path, and the requests that are not parsed.
BodyInputs ==
    {Request("GET", p, PlainHeader, RawBody) : p \in InputPaths} \cup
    {Request("POST", rpcPath, LengthHeader, b) :
        b \in ObjectBodies \cup {InvalidBody}}

\* A smaller set of inbound requests for the specification that handles
\* several requests at once: a forwarded asset request, a path that is not
\* served, a body that does not parse, an unregistered method, a forbidden
\* and a mistyped location, a request that passes after an unknown key was
\* dropped, and a path that is not in canonical form.
FewInputs ==
    {Request("GET", webPath, PlainHeader, RawBody),
     Request("GET", webPathToRpc, PlainHeader, RawBody),
     Request("GET", <<"/", "x">>, PlainHeader, RawBody),
     Request("POST", rpcPath, LengthHeader, InvalidBody),
     Request("POST", rpcPath, LengthHeader,
             JsonBody("torrent-rename-path", <<>>, 7)),
     Request("POST", rpcPath, LengthHeader,
             JsonBody("torrent-set",
                      [k \in {"location"} |-> Str(<<"/", "e">>)], 7)),
     Request("POST", rpcPath, LengthHeader,
             JsonBody("torrent-set", [k \in {"location"} |-> Num(123)], 0)),
     Request("POST", rpcPath, LengthHeader,
             JsonBody("torrent-set",
                      [k \in {"location", "incomplete-dir"} |->
                          Str(<<"/", "d", "/", "x">>)], 7))}

NoRequest == Request("", <<>>, NoHeader, RawBody)

\* ------------------------------------------------------------------- state
VARIABLES
    debugMode,       \* main.debugMode, handed to response.Responder
    downloadPrefix,  \* main.downloadPrefix, handed to DefaultMethodsValidator
    pc,              \* pc[r]: where the handler of request r stands
    inreq,           \* inreq[r]: the inbound request as the client sent it
    rpc,             \* rpc[r]: the jrpc.Request FromRequest returned
    todo,            \* todo[r]: keys the range loop of Validate has yet to visit
    info,            \* info[r]: the diagnostics Validate has collected
    verr,            \* verr[r]: the error v.Validate(req) returned
    outBody,         \* outBody[r]: r.Body as the forwarder will send it
    ctxTag,          \* ctxTag[r]: the rpcTag value of the request context
    upCalls,         \* upCalls[r]: the requests sent upstream for request r
    upStatus,        \* upStatus[r]: status of the upstream's answer, 0 if none
    resp,            \* resp[r]: what has been written to the client
    logs,            \* logs[r]: log records emitted while handling r
    nextId,          \* source of fresh correlation ids (uuid.NewString)
    outHeader,       \* outHeader[r]: r.Header as the forwarder will send it
    upResp,          \* upResp[r]: the response c.Do returned for request r
    wire,            \* wire[r]: what the handler wrote to the ResponseWriter
    gone,            \* gone[r]: the client of request r has disconnected
    validator        \* main.v, the registry every request is validated with

vars ==
    <<debugMode, downloadPrefix, pc, inreq, rpc, todo, info, verr, outBody,
      ctxTag, upCalls, upStatus, resp, logs, nextId, outHeader, upResp, wire,
      gone, validator>>

NoRpc == [Method |-> "", Arguments |-> <<>>, Tag |-> 0]

\* Nothing written to the client yet.
NoResponse ==
    [status |-> 0, kind |-> "none", contentType |-> "", nosniff |-> FALSE,
     tag |-> 0, text |-> <<>>, errId |-> 0]

\* The rpcTag key is absent from the request context.
NoTag == -1

\* c.Do has returned no response.
NoUpstreamResponse == [status |-> 0, header |-> NoHeader, body |-> <<>>]

\* The http.ResponseWriter of a request before the handler touches it: the
\* header map w.Header(), the statuses WriteHeader was called with, and the
\* body bytes written, in order.
NothingWritten == [header |-> NoHeader, statusLines |-> <<>>, body |-> <<>>]

Init ==
    /\ debugMode \in BOOLEAN
    /\ downloadPrefix \in DownloadPrefixes
    /\ pc = [r \in Reqs |-> "idle"]
    /\ inreq = [r \in Reqs |-> NoRequest]
    /\ rpc = [r \in Reqs |-> NoRpc]
    /\ todo = [r \in Reqs |-> {}]
    /\ info = [r \in Reqs |-> <<>>]
    /\ verr = [r \in Reqs |-> Nil]
    /\ outBody = [r \in Reqs |-> RawBody]
    /\ ctxTag = [r \in Reqs |-> NoTag]
    /\ upCalls = [r \in Reqs |-> <<>>]
    /\ upStatus = [r \in Reqs |-> 0]
    /\ resp = [r \in Reqs |-> NoResponse]
    /\ logs = [r \in Reqs |-> <<>>]
    /\ nextId = 1
    /\ outHeader = [r \in Reqs |-> NoHeader]
    /\ upResp = [r \in Reqs |-> NoUpstreamResponse]
    /\ wire = [r \in Reqs |-> NothingWritten]
    /\ gone = [r \in Reqs |-> FALSE]
    /\ validator = DefaultMethodsValidator

\* The same start with the registry that rejects unknown keys.
InitStrict ==
    /\ debugMode \in BOOLEAN
    /\ downloadPrefix \in DownloadPrefixes
    /\ pc = [r \in Reqs |-> "idle"]
    /\ inreq = [r \in Reqs |-> NoRequest]
    /\ rpc = [r \in Reqs |-> NoRpc]
    /\ todo = [r \in Reqs |-> {}]
    /\ info = [r \in Reqs |-> <<>>]
    /\ verr = [r \in Reqs |-> Nil]
    /\ outBody = [r \in Reqs |-> RawBody]
    /\ ctxTag = [r \in Reqs |-> NoTag]
    /\ upCalls = [r \in Reqs |-> <<>>]
    /\ upStatus = [r \in Reqs |-> 0]
    /\ resp = [r \in Reqs |-> NoResponse]
    /\ logs = [r \in Reqs |-> <<>>]
    /\ nextId = 1
    /\ outHeader = [r \in Reqs |-> NoHeader]
    /\ upResp = [r \in Reqs |-> NoUpstreamResponse]
    /\ wire = [r \in Reqs |-> NothingWritten]
    /\ gone = [r \in Reqs |-> FALSE]
    /\ validator = StrictMethodsValidator

\* -------------------------------------------------------------- the parser
\* jrpc.FromRequest: the decoded request, or the error of json.Unmarshal.
FromRequest(body) ==
    IF body.kind = "json"
    THEN [err |-> NoError,
          req |-> [Method |-> IF "method" \in body.fields
                              THEN body.Method ELSE "",
                   Arguments |-> IF "arguments" \in body.fields
                                 THEN body.Arguments ELSE <<>>,
                   Tag |-> IF "tag" \in body.fields THEN body.Tag ELSE 0]]
    ELSE [err |-> Wrap("parse body", <<"json: syntax error">>), req |-> NoRpc]

\* json.Marshal(req): `arguments` is left out when the mapping is empty and
\* `tag` when it is 0 (omitempty); every decoded JSON value encodes again, so
\* the error is always nil.
JsonMarshal(req) ==
    [err |-> NoError, bs |-> JsonBody(req.Method, req.Arguments, req.Tag)]

\* ------------------------------------------------------------ the validator
\* The loop body without the test of the field validator's result.
VisitKey_IgnoresValidator(a, requiredPrefix, args, inf, key) ==
    IF key \in DOMAIN a.Arguments
    THEN [err |-> Nil, args |-> args, info |-> inf]
    ELSE IF a.ErrorOnUnknown
    THEN [err |-> Err(ErrForbiddenField, "", key), args |-> args, info |-> inf]
    ELSE [err |-> Nil,
          args |-> [k \in DOMAIN args \ {key} |-> args[k]],
          info |-> Append(inf, key)]

\* The loop body without the delete: an unknown key is reported and kept.
VisitKey_KeepsUnknown(a, requiredPrefix, args, inf, key) ==
    IF key \in DOMAIN a.Arguments
    THEN LET e == ArgumentValidator_Validate(a.Arguments[key], requiredPrefix,
                                             key, args[key])
         IN  IF e # NoError
             THEN [err |-> Err(Wrap("bad argument", e), "", key),
                   args |-> args, info |-> inf]
             ELSE [err |-> Nil, args |-> args, info |-> inf]
    ELSE IF a.ErrorOnUnknown
    THEN [err |-> Err(ErrForbiddenField, "", key), args |-> args, info |-> inf]
    ELSE [err |-> Nil, args |-> args, info |-> Append(inf, key)]

\* The loop body with the failing key removed from the mapping on the way
\* out.
VisitKey_DropsFailing(a, requiredPrefix, args, inf, key) ==
    IF key \in DOMAIN a.Arguments
    THEN LET e == ArgumentValidator_Validate(a.Arguments[key], requiredPrefix,
                                             key, args[key])
         IN  IF e # NoError
             THEN [err |-> Err(Wrap("bad argument", e), "", key),
                   args |-> [k \in DOMAIN args \ {key} |-> args[k]],
                   info |-> inf]
             ELSE [err |-> Nil, args |-> args, info |-> inf]
    ELSE IF a.ErrorOnUnknown
    THEN [err |-> Err(ErrForbiddenField, "", key), args |-> args, info |-> inf]
    ELSE [err |-> Nil,
          args |-> [k \in DOMAIN args \ {key} |-> args[k]],
          info |-> Append(inf, key)]

\* The loop body without the ErrorOnUnknown branch: an unknown key is always
\* recorded and removed.
VisitKey_AlwaysDrops(a, requiredPrefix, args, inf, key) ==
    IF key \in DOMAIN a.Arguments
    THEN LET e == ArgumentValidator_Validate(a.Arguments[key], requiredPrefix,
                                             key, args[key])
         IN  IF e # NoError
             THEN [err |-> Err(Wrap("bad argument", e), "", key),
                   args |-> args, info |-> inf]
             ELSE [err |-> Nil, args |-> args, info |-> inf]
    ELSE [err |-> Nil,
          args |-> [k \in DOMAIN args \ {key} |-> args[k]],
          info |-> Append(inf, key)]

\* The loop body letting a failing key go like an unknown one once a key has
\* been dropped.
VisitKey_LenientAfterSkip(a, requiredPrefix, args, inf, key) ==
    IF key \in DOMAIN a.Arguments
    THEN LET e == ArgumentValidator_Validate(a.Arguments[key], requiredPrefix,
                                             key, args[key])
         IN  IF e # NoError /\ inf = <<>>
             THEN [err |-> Err(Wrap("bad argument", e), "", key),
                   args |-> args, info |-> inf]
             ELSE IF e # NoError
             THEN [err |-> Nil,
                   args |-> [k \in DOMAIN args \ {key} |-> args[k]],
                   info |-> Append(inf, key)]
             ELSE [err |-> Nil, args |-> args, info |-> inf]
    ELSE IF a.ErrorOnUnknown
    THEN [err |-> Err(ErrForbiddenField, "", key), args |-> args, info |-> inf]
    ELSE [err |-> Nil,
          args |-> [k \in DOMAIN args \ {key} |-> args[k]],
          info |-> Append(inf, key)]

\* One iteration of the range loop of MethodArgumentsValidator.Validate on
\* `key`: the error it returns with (NoError to go on), the mapping and the
\* diagnostics after it.
VisitKey(a, requiredPrefix, args, inf, key) ==
    IF key \in DOMAIN a.Arguments
    THEN LET e == ArgumentValidator_Validate(a.Arguments[key], requiredPrefix,
                                             key, args[key])
         IN  IF e # NoError
             THEN [err |-> Err(Wrap("bad argument", e), "", key),
                   args |-> args, info |-> inf]
             ELSE [err |-> Nil, args |-> args, info |-> inf]
    ELSE IF a.ErrorOnUnknown
    THEN [err |-> Err(ErrForbiddenField, "", key), args |-> args, info |-> inf]
    ELSE [err |-> Nil,
          args |-> [k \in DOMAIN args \ {key} |-> args[k]],
          info |-> Append(inf, key)]

\* MethodArgumentsValidator.Validate with the range loop producing the keys
\* in the order `order`: the error, the mapping and the diagnostics it
\* returns with.  A key removed before the loop reaches it is not produced.
RECURSIVE MethodArgumentsValidator_Validate(_, _, _, _, _)
MethodArgumentsValidator_Validate(a, requiredPrefix, args, inf, order) ==
    IF order = <<>> THEN [err |-> Nil, args |-> args, info |-> inf]
    ELSE IF Head(order) \notin DOMAIN args
    THEN MethodArgumentsValidator_Validate(a, requiredPrefix, args, inf,
                                           Tail(order))
    ELSE LET v == VisitKey(a, requiredPrefix, args, inf, Head(order))
         IN  IF v.err # Nil THEN v
             ELSE MethodArgumentsValidator_Validate(a, requiredPrefix, v.args,
                                                    v.info, Tail(order))

\* logger.WithAttributes(err, slog.String("method", req.Method))
WithMethod(err, method) == [err EXCEPT !.method = method]

\* Line 90 returning nil for a method the registry does not hold.
UnknownMethod_Nil(method) == Nil

\* MethodsValidator.Validate, line 90: the method is not in the registry.
UnknownMethod(method) == WithMethod(Err(ErrUnknownMethod, "", ""), method)

\* The warnings MethodsValidator.Validate logs for the diagnostics.
RECURSIVE SkipWarnings(_, _)
SkipWarnings(method, inf) ==
    IF inf = <<>> THEN <<>>
    ELSE <<[level |-> "WARN", msg |-> <<"skip field from RPC request">>,
            errId |-> 0, method |-> method, field |-> Head(inf)]>>
         \o SkipWarnings(method, Tail(inf))

\* ------------------------------------------------------------ the responder
\* uuid.NewString(): an id no earlier call returned.
NewUUID(next) == next

\* The message left as it is.
ToUpperFirst_None(part) == part

\* unicode.ToUpper of the first rune of the first part of a message.
ToUpperFirst(part) ==
    CASE part = "failed to unmarshal RPC request" -> "Failed to unmarshal RPC request"
      [] part = "invalid RPC request" -> "Invalid RPC request"
      [] part = "cannot serialize RPC request" -> "Cannot serialize RPC request"
      [] part = "upstream error" -> "Upstream error"
      [] part = "must be string" -> "Must be string"
      [] OTHER -> part

GenericText ==
    <<"Unknown error occurred while processing your request. Error ID">>

\* A responder that writes the error message in either mode.
renderErrorReturnID_AlwaysVerbose(debug, status, message, tag, errId) ==
    [status |-> status, kind |-> "error",
     contentType |-> "application/json; charset=utf-8", nosniff |-> TRUE,
     tag |-> tag,
     text |-> <<ToUpperFirst(Head(message))>> \o Tail(message),
     errId |-> IF debug THEN 0 ELSE errId]

\* A responder that keeps the caller's status for debug mode only.
renderErrorReturnID_DebugOnlyStatus(debug, status, message, tag, errId) ==
    [status |-> IF debug THEN status ELSE StatusInternalServerError,
     kind |-> "error",
     contentType |-> "application/json; charset=utf-8", nosniff |-> TRUE,
     tag |-> tag,
     text |-> IF debug THEN <<ToUpperFirst(Head(message))>> \o Tail(message)
              ELSE GenericText,
     errId |-> IF debug THEN 0 ELSE errId]

\* Responder.renderErrorReturnID: the response written to the client.
renderErrorReturnID(debug, status, message, tag, errId) ==
    [status |-> status, kind |-> "error",
     contentType |-> "application/json; charset=utf-8", nosniff |-> TRUE,
     tag |-> tag,
     text |-> IF debug THEN <<ToUpperFirst(Head(message))>> \o Tail(message)
              ELSE GenericText,
     errId |-> IF debug THEN 0 ELSE errId]

\* A log record without the err_id attribute.
LogRecord_NoId(level, err, errId) ==
    [level |-> level, msg |-> err.msg, errId |-> 0,
     method |-> err.method, field |-> err.field]

\* response.log: the record handed to the slog handler, with the attributes
\* logger.handler.Handle extracts from the error.
LogRecord(level, err, errId) ==
    [level |-> level, msg |-> err.msg, errId |-> errId,
     method |-> err.method, field |-> err.field]

\* Responder.renderErrorReturnID, lines 92-102, seen on the ResponseWriter:
\* the two headers are set, the status is written and the JSON body follows.
WriteErrorResponse(w, status) ==
    [header |->
        HeaderSet(HeaderSet(w.header, "Content-Type",
                            "application/json; charset=utf-8"),
                  "X-Content-Type-Options", "nosniff"),
     statusLines |-> Append(w.statusLines, status),
     body |-> Append(w.body, "error json")]

\* Responder.RespondAndLogCustom for request r.
RespondAndLogCustom(r, err, tag, lvl, status) ==
    LET errId == NewUUID(nextId)
    IN  /\ resp' = [resp EXCEPT ![r] =
                       renderErrorReturnID(debugMode, status, err.msg, tag, errId)]
        /\ wire' = [wire EXCEPT ![r] = WriteErrorResponse(@, status)]
        /\ logs' = [logs EXCEPT ![r] =
                       Append(@, LogRecord(lvl, err, errId))]
        /\ nextId' = nextId + 1

\* Responder.RespondAndLogError
RespondAndLogError(r, err, tag) ==
    RespondAndLogCustom(r, err, tag, "ERROR", StatusInternalServerError)

\* fmt.Errorf(msg + ": %w", err), keeping the attributes errors.As finds.
WrapErr(msg, err) == [err EXCEPT !.msg = Wrap(msg, @)]

\* ----------------------------------------------------------------- routing
\* http.ServeMux with the three patterns main registers: rpcPath matches
\* itself only, webPath (it ends with "/") matches every path below it, and
\* "/" matches what is left.
Handler(path) ==
    IF path = rpcPath THEN "rpcProxy"
    ELSE IF HasPrefix(path, webPath) THEN "proxy"
    ELSE "homePage"

\* The names of a cleaned path: "." is dropped and ".." takes back the name
\* before it (at the root there is none to take back).
RECURSIVE CleanNames(_, _)
CleanNames(names, reached) ==
    IF names = <<>> THEN reached
    ELSE IF Head(names) = ".."
    THEN CleanNames(Tail(names),
                    IF reached = <<>> THEN <<>>
                    ELSE SubSeq(reached, 1, Len(reached) - 1))
    ELSE IF Head(names) = "." THEN CleanNames(Tail(names), reached)
    ELSE CleanNames(Tail(names), Append(reached, Head(names)))

RECURSIVE JoinNames(_)
JoinNames(names) ==
    IF names = <<>> THEN <<>>
    ELSE <<"/", Head(names)>> \o JoinNames(Tail(names))

\* path.Clean of a rooted path, with the last separator kept: what
\* http.ServeMux does to the path of a request (cleanPath) and what
\* url.JoinPath does to the joined path.
CleanPath(path) ==
    LET names == CleanNames(SelectSeq(path, LAMBDA t : t # "/"), <<>>)
    IN  IF names = <<>> THEN <<"/">>
        ELSE IF path[Len(path)] = "/" THEN Append(JoinNames(names), "/")
        ELSE JoinNames(names)

\* gw.JoinPath(r.URL.Path): main lets the upstream URL have no path but "/",
\* so the joined path is the cleaned inbound path.
JoinPath(path) == CleanPath(path)

StatusMovedPermanently == 301

\* Where http.DefaultServeMux redirects a request, <<>> if it does not: a
\* path that names a registered subtree without its last separator goes to
\* the subtree, and a path that is not clean goes to the cleaned path.  The
\* path of a CONNECT request is not cleaned.
MuxRedirect(method, path) ==
    LET p == IF method = "CONNECT" THEN path ELSE CleanPath(path)
    IN  IF p # rpcPath /\ Append(p, "/") = webPath THEN webPath
        ELSE IF p # path THEN p
        ELSE <<>>

\* Statuses the upstream answers with.
UpstreamStatuses == {200, 302, 409}

\* The responses c.Do returns: a page with a header of two values, a
\* redirect (CheckRedirect returns http.ErrUseLastResponse, so c.Do hands the
\* 3xx response back instead of following it), and the daemon's 409.
UpstreamResponses ==
    {[status |-> 200,
      header |-> HeaderAdd(HeaderAdd(HeaderSet(NoHeader, "Content-Type",
                                               "text/html"),
                                     "Set-Cookie", "a"), "Set-Cookie", "b"),
      body |-> <<"b1", "b2">>],
     [status |-> 302,
      header |-> HeaderSet(NoHeader, "Location", <<"/", "elsewhere">>),
      body |-> <<"b1">>],
     [status |-> 409,
      header |-> HeaderSet(NoHeader, "X-Transmission-Session-Id", "s"),
      body |-> <<>>]}

\* The header loop of proxy with Header().Set in place of Header().Add.
CopyHeader_Set(header, from) ==
    [h \in DOMAIN header \cup DOMAIN from |->
        IF h \in DOMAIN from THEN <<from[h][Len(from[h])]>> ELSE header[h]]

\* proxy, lines 76-80: every value of every header of the upstream response
\* is added to w.Header().  The values of one name keep their order; the
\* order of the names does not matter to the result.
CopyHeader(header, from) ==
    [h \in DOMAIN header \cup DOMAIN from |->
        (IF h \in DOMAIN header THEN header[h] ELSE <<>>) \o
        (IF h \in DOMAIN from THEN from[h] ELSE <<>>)]

\* A child context that does not follow its parent (context.Background()).
WithValueDone_Detached(parentDone) == FALSE

\* context.WithValue(parent, key, val): the child is done when the parent is.
WithValueDone(parentDone) == parentDone

\* Whether the context of the request the forwarder sends is done.  The
\* context of an inbound request is cancelled when the client's connection
\* closes; proxy sends the request it was given, and on the RPC route that
\* request carries the WithValue child of the inbound context (rpcProxy,
\* line 116).
CtxDone(r) ==
    IF ctxTag[r] # NoTag THEN WithValueDone(gone[r]) ELSE gone[r]

\* ----------------------------------------------------------------- actions
\* The server accepts an inbound request and hands it to its handler.
\* Requests take the slots in the order they arrive.
Arrive(r, inputs) ==
    /\ pc[r] = "idle"
    /\ \A q \in Reqs : q < r => pc[q] # "idle"
    /\ \E in \in inputs :
          /\ inreq' = [inreq EXCEPT ![r] = in]
          /\ outBody' = [outBody EXCEPT ![r] = in.body]
          /\ outHeader' = [outHeader EXCEPT ![r] = in.header]
          /\ pc' = [pc EXCEPT ![r] =
                      IF MuxRedirect(in.method, in.path) # <<>>
                      THEN "redirect" ELSE Handler(in.path)]
    /\ UNCHANGED <<debugMode, downloadPrefix, rpc, todo, info, verr, ctxTag,
                   upCalls, upStatus, resp, logs, nextId, upResp, wire, gone,
                   validator>>

\* The redirect handler of http.ServeMux (http.Redirect): the Location
\* header and the status 301, with a short HTML body for a GET.
muxRedirect(r) ==
    /\ pc[r] = "redirect"
    /\ LET target == MuxRedirect(inreq[r].method, inreq[r].path)
           get == inreq[r].method = "GET"
       IN  /\ resp' = [resp EXCEPT ![r] =
                  [status |-> StatusMovedPermanently, kind |-> "redirect",
                   contentType |->
                       IF get THEN "text/html; charset=utf-8" ELSE "",
                   nosniff |-> FALSE, tag |-> 0, text |-> target,
                   errId |-> 0]]
           /\ wire' = [wire EXCEPT ![r] =
                  [header |->
                      IF get
                      THEN HeaderSet(HeaderSet(@.header, "Location", target),
                                     "Content-Type",
                                     "text/html; charset=utf-8")
                      ELSE HeaderSet(@.header, "Location", target),
                   statusLines |->
                      Append(@.statusLines, StatusMovedPermanently),
                   body |-> IF get THEN Append(@.body, "moved permanently html")
                            ELSE @.body]]
    /\ pc' = [pc EXCEPT ![r] = "done"]
    /\ UNCHANGED <<debugMode, downloadPrefix, inreq, rpc, todo, info, verr,
                   outBody, ctxTag, upCalls, upStatus, logs, nextId,
                   outHeader, upResp, gone, validator>>

\* homePage: "/" goes to the forwarder, every other path gets the 404 body.
homePage(r) ==
    /\ pc[r] = "homePage"
    /\ IF inreq[r].path = rootPath
       THEN /\ pc' = [pc EXCEPT ![r] = "proxy"]
            /\ UNCHANGED <<resp, wire>>
       ELSE /\ pc' = [pc EXCEPT ![r] = "done"]
            /\ resp' = [resp EXCEPT ![r] =
                  [status |-> StatusNotFound, kind |-> "notfound",
                   contentType |-> "application/json", nosniff |-> FALSE,
                   tag |-> 0, text |-> <<"page not found">>, errId |-> 0]]
            /\ wire' = [wire EXCEPT ![r] =
                  [header |-> HeaderSet(@.header, "Content-Type",
                                        "application/json"),
                   statusLines |-> Append(@.statusLines, StatusNotFound),
                   body |-> Append(@.body, "page not found json")]]
    /\ UNCHANGED <<debugMode, downloadPrefix, inreq, rpc, todo, info, verr,
                   outBody, ctxTag, upCalls, upStatus, logs, nextId,
                   outHeader, upResp, gone, validator>>

\* A parser that decodes into one Request shared by every handler instead of
\* a Request of its own for each call.
rpcParse_SharedRequest(r) ==
    /\ pc[r] = "rpcProxy"
    /\ LET p == FromRequest(inreq[r].body)
       IN  IF p.err # NoError
           THEN /\ RespondAndLogCustom(r,
                      Err(Wrap("failed to unmarshal RPC request", p.err), "", ""),
                      0, "ERROR", StatusBadRequest)
                /\ pc' = [pc EXCEPT ![r] = "done"]
                /\ UNCHANGED <<rpc, todo>>
           ELSE /\ rpc' = [q \in Reqs |-> p.req]
                /\ todo' = [todo EXCEPT ![r] = DOMAIN p.req.Arguments]
                /\ pc' = [pc EXCEPT ![r] = "validate"]
                /\ UNCHANGED <<resp, logs, nextId, wire>>
    /\ outBody' = [outBody EXCEPT ![r] = EmptyBody]
    /\ UNCHANGED <<debugMode, downloadPrefix, inreq, info, verr, ctxTag,
                   upCalls, upStatus, outHeader, upResp, gone, validator>>

\* rpcProxy, lines 95-99: parse the body, which FromRequest reads to its end
\* (io.ReadAll); a body that does not parse is answered with 400 and tag 0.
\* Otherwise v.Validate(req) starts.
rpcParse(r) ==
    /\ pc[r] = "rpcProxy"
    /\ LET p == FromRequest(inreq[r].body)
       IN  IF p.err # NoError
           THEN /\ RespondAndLogCustom(r,
                      Err(Wrap("failed to unmarshal RPC request", p.err), "", ""),
                      0, "ERROR", StatusBadRequest)
                /\ pc' = [pc EXCEPT ![r] = "done"]
                /\ UNCHANGED <<rpc, todo>>
           ELSE /\ rpc' = [rpc EXCEPT ![r] = p.req]
                /\ todo' = [todo EXCEPT ![r] = DOMAIN p.req.Arguments]
                /\ pc' = [pc EXCEPT ![r] = "validate"]
                /\ UNCHANGED <<resp, logs, nextId, wire>>
    /\ outBody' = [outBody EXCEPT ![r] = EmptyBody]
    /\ UNCHANGED <<debugMode, downloadPrefix, inreq, info, verr, ctxTag,
                   upCalls, upStatus, outHeader, upResp, gone, validator>>

\* MethodsValidator.Validate for a method the registry does not hold
\* (line 90).
validateUnknownMethod(r) ==
    /\ pc[r] = "validate"
    /\ rpc[r].Method \notin DOMAIN validator
    /\ verr' = [verr EXCEPT ![r] = UnknownMethod(rpc[r].Method)]
    /\ pc' = [pc EXCEPT ![r] = "validated"]
    /\ UNCHANGED <<debugMode, downloadPrefix, inreq, rpc, todo, info, outBody,
                   ctxTag, upCalls, upStatus, resp, logs, nextId, outHeader,
                   upResp, wire, gone, validator>>

\* One iteration of the range loop of MethodArgumentsValidator.Validate: the
\* loop visits the keys in an order the language leaves open.  An error ends
\* the loop, with the keys it has not come to left in todo[r] for good;
\* MethodsValidator.Validate then logs the diagnostics and returns the error
\* with the method attached (lines 72-87).
validateKey(r) ==
    /\ pc[r] = "validate"
    /\ rpc[r].Method \in DOMAIN validator
    /\ \E key \in todo[r] :
          LET v == VisitKey(validator[rpc[r].Method],
                            downloadPrefix, rpc[r].Arguments, info[r], key)
          IN  /\ rpc' = [rpc EXCEPT ![r].Arguments = v.args]
              /\ info' = [info EXCEPT ![r] = v.info]
              /\ todo' = [todo EXCEPT ![r] = @ \ {key}]
              /\ IF v.err # Nil
                 THEN /\ verr' = [verr EXCEPT ![r] =
                                     WithMethod(v.err, rpc[r].Method)]
                      /\ logs' = [logs EXCEPT ![r] =
                                     @ \o SkipWarnings(rpc[r].Method, v.info)]
                      /\ pc' = [pc EXCEPT ![r] = "validated"]
                 ELSE UNCHANGED <<pc, verr, logs>>
    /\ UNCHANGED <<debugMode, downloadPrefix, inreq, outBody, ctxTag, upCalls,
                   upStatus, resp, nextId, outHeader, upResp, wire, gone,
                   validator>>

\* The loop has visited every key: MethodArgumentsValidator.Validate returns
\* nil (line 142), MethodsValidator.Validate logs the diagnostics and returns
\* nil as well (lines 73-87).
validateReturn(r) ==
    /\ pc[r] = "validate"
    /\ rpc[r].Method \in DOMAIN validator
    /\ todo[r] = {}
    /\ logs' = [logs EXCEPT ![r] = @ \o SkipWarnings(rpc[r].Method, info[r])]
    /\ verr' = [verr EXCEPT ![r] = Nil]
    /\ pc' = [pc EXCEPT ![r] = "validated"]
    /\ UNCHANGED <<debugMode, downloadPrefix, inreq, rpc, todo, info, outBody,
                   ctxTag, upCalls, upStatus, resp, nextId, outHeader, upResp,
                   wire, gone, validator>>

\* rpcProxy without the return after the answer to a validation error: the
\* request is re-serialized and forwarded all the same.
rpcForward_NoReturn(r) ==
    /\ pc[r] = "validated"
    /\ IF verr[r] # Nil
       THEN RespondAndLogCustom(r, WrapErr("invalid RPC request", verr[r]),
                                rpc[r].Tag, "ERROR", StatusBadRequest)
       ELSE UNCHANGED <<resp, logs, nextId, wire>>
    /\ outBody' = [outBody EXCEPT ![r] = JsonMarshal(rpc[r]).bs]
    /\ outHeader' = [outHeader EXCEPT ![r] = HeaderDel(@, "Content-Length")]
    /\ ctxTag' = [ctxTag EXCEPT ![r] = rpc[r].Tag]
    /\ pc' = [pc EXCEPT ![r] = "proxy"]
    /\ UNCHANGED <<debugMode, downloadPrefix, inreq, rpc, todo, info, verr,
                   upCalls, upStatus, upResp, gone, validator>>

\* rpcProxy handing the forwarder the bytes the client sent instead of the
\* re-serialized request.
rpcForward_ForwardsInbound(r) ==
    /\ pc[r] = "validated"
    /\ IF verr[r] # Nil
       THEN /\ RespondAndLogCustom(r, WrapErr("invalid RPC request", verr[r]),
                                   rpc[r].Tag, "ERROR", StatusBadRequest)
            /\ pc' = [pc EXCEPT ![r] = "done"]
            /\ UNCHANGED <<outBody, outHeader, ctxTag>>
       ELSE /\ outBody' = [outBody EXCEPT ![r] = inreq[r].body]
            /\ outHeader' = [outHeader EXCEPT ![r] =
                                HeaderDel(@, "Content-Length")]
            /\ ctxTag' = [ctxTag EXCEPT ![r] = rpc[r].Tag]
            /\ pc' = [pc EXCEPT ![r] = "proxy"]
            /\ UNCHANGED <<resp, logs, nextId, wire>>
    /\ UNCHANGED <<debugMode, downloadPrefix, inreq, rpc, todo, info, verr,
                   upCalls, upStatus, upResp, gone, validator>>

\* rpcProxy, lines 101-116: a validation error is answered with 400 and the
\* request's tag.  Otherwise the request is re-serialized (a failure is
\* answered with 500), the bytes replace the body, the tag goes into the
\* request context and the forwarder is called.
rpcForward(r) ==
    /\ pc[r] = "validated"
    /\ IF verr[r] # Nil
       THEN /\ RespondAndLogCustom(r, WrapErr("invalid RPC request", verr[r]),
                                   rpc[r].Tag, "ERROR", StatusBadRequest)
            /\ pc' = [pc EXCEPT ![r] = "done"]
            /\ UNCHANGED <<outBody, outHeader, ctxTag>>
       ELSE LET m == JsonMarshal(rpc[r])
            IN  IF m.err # NoError
                THEN /\ RespondAndLogError(r,
                           Err(Wrap("cannot serialize RPC request", m.err), "", ""),
                           rpc[r].Tag)
                     /\ pc' = [pc EXCEPT ![r] = "done"]
                     /\ UNCHANGED <<outBody, outHeader, ctxTag>>
                ELSE /\ outBody' = [outBody EXCEPT ![r] = m.bs]
                     /\ outHeader' = [outHeader EXCEPT ![r] =
                                         HeaderDel(@, "Content-Length")]
                     /\ ctxTag' = [ctxTag EXCEPT ![r] = rpc[r].Tag]
                     /\ pc' = [pc EXCEPT ![r] = "proxy"]
                     /\ UNCHANGED <<resp, logs, nextId, wire>>
    /\ UNCHANGED <<debugMode, downloadPrefix, inreq, rpc, todo, info, verr,
                   upCalls, upStatus, upResp, gone, validator>>

\* A forwarder that calls the upstream for one request at a time.
proxyDo_OneAtATime(r) ==
    /\ pc[r] = "proxy"
    /\ \A q \in Reqs \ {r} : pc[q] \notin {"upstream", "copy"}
    /\ upCalls' = [upCalls EXCEPT ![r] =
                      Append(@, Request(inreq[r].method, JoinPath(inreq[r].path),
                                        outHeader[r], outBody[r]))]
    /\ pc' = [pc EXCEPT ![r] = "upstream"]
    /\ UNCHANGED <<debugMode, downloadPrefix, inreq, rpc, todo, info, verr,
                   outBody, ctxTag, resp, upStatus, logs, nextId, outHeader,
                   upResp, wire, gone, validator>>

\* A forwarder that writes the status line before it calls the upstream.
proxyDo_StatusFirst(r) ==
    /\ pc[r] = "proxy"
    /\ upCalls' = [upCalls EXCEPT ![r] =
                      Append(@, Request(inreq[r].method, JoinPath(inreq[r].path),
                                        outHeader[r], outBody[r]))]
    /\ wire' = [wire EXCEPT ![r].statusLines = Append(@, 200)]
    /\ pc' = [pc EXCEPT ![r] = "upstream"]
    /\ UNCHANGED <<debugMode, downloadPrefix, inreq, rpc, todo, info, verr,
                   outBody, ctxTag, resp, upStatus, logs, nextId, outHeader,
                   upResp, gone, validator>>

\* proxy, lines 60-65: the request goes out to the upstream.
proxyDo(r) ==
    /\ pc[r] = "proxy"
    /\ upCalls' = [upCalls EXCEPT ![r] =
                      Append(@, Request(inreq[r].method, JoinPath(inreq[r].path),
                                        outHeader[r], outBody[r]))]
    /\ pc' = [pc EXCEPT ![r] = "upstream"]
    /\ UNCHANGED <<debugMode, downloadPrefix, inreq, rpc, todo, info, verr,
                   outBody, ctxTag, resp, upStatus, logs, nextId, outHeader,
                   upResp, wire, gone, validator>>

\* The error branch of proxy without the lookup of rpcTag in the context.
upstreamError_TagZero(r) ==
    /\ pc[r] = "upstream"
    /\ RespondAndLogCustom(r,
          Err(Wrap("upstream error",
                   IF CtxDone(r) THEN <<"context canceled">>
                   ELSE <<"connection refused">>), "", ""),
          0, "ERROR", StatusBadGateway)
    /\ pc' = [pc EXCEPT ![r] = "done"]
    /\ UNCHANGED <<debugMode, downloadPrefix, inreq, rpc, todo, info, verr,
                   outBody, ctxTag, upCalls, upStatus, outHeader, upResp,
                   gone, validator>>

\* proxy, lines 66-74: c.Do returned an error, because the transport failed
\* or because the context of the request is done; the client gets 502 with
\* the tag of the request context.
upstreamError(r) ==
    /\ pc[r] = "upstream"
    /\ RespondAndLogCustom(r,
          Err(Wrap("upstream error",
                   IF CtxDone(r) THEN <<"context canceled">>
                   ELSE <<"connection refused">>), "", ""),
          IF ctxTag[r] # NoTag THEN ctxTag[r] ELSE 0,
          "ERROR", StatusBadGateway)
    /\ pc' = [pc EXCEPT ![r] = "done"]
    /\ UNCHANGED <<debugMode, downloadPrefix, inreq, rpc, todo, info, verr,
                   outBody, ctxTag, upCalls, upStatus, outHeader, upResp,
                   gone, validator>>

\* proxy, lines 76-82: c.Do returned a response; its headers and its status
\* are written to the client.  c.Do returns no response for a request whose
\* context is done.
upstreamResponse(r) ==
    /\ pc[r] = "upstream"
    /\ ~CtxDone(r)
    /\ \E u \in UpstreamResponses :
          /\ u.status \in UpstreamStatuses
          /\ upResp' = [upResp EXCEPT ![r] = u]
          /\ upStatus' = [upStatus EXCEPT ![r] = u.status]
          /\ resp' = [resp EXCEPT ![r] =
                [status |-> u.status, kind |-> "relay",
                 contentType |-> "upstream", nosniff |-> FALSE, tag |-> 0,
                 text |-> <<>>, errId |-> 0]]
          /\ wire' = [wire EXCEPT ![r] =
                [header |-> CopyHeader(@.header, u.header),
                 statusLines |-> Append(@.statusLines, u.status),
                 body |-> @.body]]
    /\ pc' = [pc EXCEPT ![r] = "copy"]
    /\ UNCHANGED <<debugMode, downloadPrefix, inreq, rpc, todo, info, verr,
                   outBody, ctxTag, upCalls, logs, nextId, outHeader, gone,
                   validator>>

\* proxy answering a failed io.Copy the way it answers a failed c.Do: with
\* the Responder and 502.
copyBody_RespondsOnFailure(r) ==
    /\ pc[r] = "copy"
    /\ \/ /\ ~CtxDone(r)
          /\ resp' = [resp EXCEPT ![r].text = <<"upstream body">>]
          /\ wire' = [wire EXCEPT ![r].body = @ \o upResp[r].body]
          /\ UNCHANGED <<logs, nextId>>
       \/ RespondAndLogCustom(r,
              Err(<<"proxy: failed to write response", "write error">>, "", ""),
              0, "ERROR", StatusBadGateway)
    /\ pc' = [pc EXCEPT ![r] = "done"]
    /\ UNCHANGED <<debugMode, downloadPrefix, inreq, rpc, todo, info, verr,
                   outBody, ctxTag, upCalls, upStatus, outHeader, upResp,
                   gone, validator>>

\* proxy, lines 84-89: io.Copy of the upstream body.  It either copies the
\* whole body, or it fails after some of the bytes (a read from the upstream
\* or a write to the client returned an error) and the failure is logged.
\* Reading the body of a response whose request context is done fails.
copyBody(r) ==
    /\ pc[r] = "copy"
    /\ \/ /\ ~CtxDone(r)
          /\ resp' = [resp EXCEPT ![r].text = <<"upstream body">>]
          /\ wire' = [wire EXCEPT ![r].body = @ \o upResp[r].body]
          /\ UNCHANGED logs
       \/ /\ \E n \in 0..Len(upResp[r].body) :
                wire' = [wire EXCEPT ![r].body =
                            @ \o SubSeq(upResp[r].body, 1, n)]
          /\ logs' = [logs EXCEPT ![r] = Append(@,
                [level |-> "ERROR",
                 msg |-> <<"proxy: failed to write response", "write error">>,
                 errId |-> 0, method |-> "", field |-> ""])]
          /\ UNCHANGED resp
    /\ pc' = [pc EXCEPT ![r] = "done"]
    /\ UNCHANGED <<debugMode, downloadPrefix, inreq, rpc, todo, info, verr,
                   outBody, ctxTag, upCalls, upStatus, nextId, outHeader,
                   upResp, gone, validator>>

\* The client of request r closes its connection while the request is with
\* the forwarder.
clientDisconnect(r) ==
    /\ pc[r] \in {"upstream", "copy"}
    /\ ~gone[r]
    /\ gone' = [gone EXCEPT ![r] = TRUE]
    /\ UNCHANGED <<debugMode, downloadPrefix, pc, inreq, rpc, todo, info, verr,
                   outBody, ctxTag, upCalls, upStatus, resp, logs, nextId,
                   outHeader, upResp, wire, validator>>

\* What the handler of request r does next.
Handle(r) ==
    \/ muxRedirect(r)
    \/ homePage(r)
    \/ rpcParse(r)
    \/ validateUnknownMethod(r)
    \/ validateKey(r)
    \/ validateReturn(r)
    \/ rpcForward(r)
    \/ proxyDo(r)
    \/ upstreamError(r)
    \/ upstreamResponse(r)
    \/ copyBody(r)

\* One inbound request, drawn from the full set of inputs.
Next ==
    \/ Arrive(1, Inputs)
    \/ Handle(1)
    \/ clientDisconnect(1)

Spec == Init /\ [][Next]_vars

\* Several inbound requests, handled concurrently (net/http runs each
\* handler in a goroutine of its own); their clients stay connected.
NextMulti ==
    \E r \in Reqs :
        \/ Arrive(r, FewInputs)
        \/ Handle(r)

SpecMulti == Init /\ [][NextMulti]_vars

\* Inbound requests that between them take every way through the handlers:
\* a path that is not served, a path that is not in canonical form, an
\* unregistered method, and a request that is forwarded after an unknown key
\* was dropped.
FairInputs ==
    {i \in FewInputs :
        \/ i.path \in {<<"/", "x">>, webPathToRpc}
        \/ /\ i.path = rpcPath /\ i.body.kind = "json"
           /\ i.body.Tag = 7
           /\ i.body.Arguments # [k \in {"location"} |-> Str(<<"/", "e">>)]}

NextFair ==
    \E r \in Reqs :
        \/ Arrive(r, FairInputs)
        \/ Handle(r)

\* Several requests handled concurrently, with every handler that can take a
\* step taking one eventually: each handler runs in a goroutine of its own,
\* and the upstream call returns a response or an error.
SpecFair ==
    Init /\ [][NextFair]_vars /\ \A r \in Reqs : WF_vars(Handle(r))

\* One inbound request with any of the methods and headers.
HttpInputs ==
    {Request(m, i.path, h, i.body) :
        m \in HttpMethods, h \in InputHeaders,
        i \in FewInputs \cup
              {Request("GET", webPathNoSlash, PlainHeader, RawBody)}}

NextHttp ==
    \/ Arrive(1, HttpInputs)
    \/ Handle(1)
    \/ clientDisconnect(1)

SpecHttp == Init /\ [][NextHttp]_vars

\* One inbound request, validated against the registry that rejects unknown
\* keys.
NextStrict ==
    \/ Arrive(1, Inputs)
    \/ Handle(1)
    \/ clientDisconnect(1)

SpecStrict == InitStrict /\ [][NextStrict]_vars

\* The validator on its own: an RPC request arrives, is parsed and is
\* validated, and the handler goes no further.
NextValidate ==
    \/ Arrive(1, {i \in Inputs : i.path = rpcPath})
    \/ rpcParse(1)
    \/ validateUnknownMethod(1)
    \/ validateKey(1)
    \/ validateReturn(1)

SpecValidate == Init /\ [][NextValidate]_vars

\* One inbound request whose body, on the RPC path, is any JSON object.
NextBody ==
    \/ Arrive(1, BodyInputs)
    \/ Handle(1)
    \/ clientDisconnect(1)

SpecBody == Init /\ [][NextBody]_vars

\* ======================================================================
\* Properties
\* ======================================================================
OnRpcPath(r) == pc[r] # "idle" /\ inreq[r].path = rpcPath
Parsed(r) == OnRpcPath(r) /\ inreq[r].body.kind = "json"
Registered(r) == inreq[r].body.Method \in DOMAIN DefaultMethodsValidator
Allowed(r) == DOMAIN DefaultMethodsValidator[inreq[r].body.Method].Arguments
InArgs(r) == inreq[r].body.Arguments

\* Key k of the inbound arguments of r passes the field validator its method
\* registers for it.
KeyPasses(r, k) ==
    /\ k \in Allowed(r)
    /\ ArgumentValidator_Validate(
           DefaultMethodsValidator[inreq[r].body.Method].Arguments[k],
           downloadPrefix, k, InArgs(r)[k]) = NoError

\* Every allowed key of the inbound arguments of r passes its validator.
AllAllowedPass(r) ==
    \A k \in DOMAIN InArgs(r) : k \in Allowed(r) => KeyPasses(r, k)

\* The request r should pass validation.
Valid(r) == Parsed(r) /\ Registered(r) /\ AllAllowedPass(r)

\* Request r was answered by the Responder.
ErrorResponse(r) == resp[r].kind = "error"

\* The message of the error the Responder logged for r.
LoggedError(r) == logs[r][Len(logs[r])].msg

\* C1: on the RPC path the upstream is called only if validation returned no
\* error, that is the method is registered and every argument key passed its
\* field validator or was removed as unknown; a request that fails to parse
\* or to validate never reaches the upstream and ends with an error response.
C1_ForwardOnlyIfValid ==
    \A r \in Reqs : OnRpcPath(r) =>
        /\ upCalls[r] # <<>> =>
              /\ Parsed(r) /\ Registered(r) /\ verr[r] = Nil
              /\ \A k \in DOMAIN InArgs(r) :
                    \/ KeyPasses(r, k) /\ k \in DOMAIN rpc[r].Arguments
                    \/ k \notin Allowed(r) /\ k \notin DOMAIN rpc[r].Arguments
        /\ ~Valid(r) =>
              /\ upCalls[r] = <<>>
              /\ pc[r] \notin {"proxy", "upstream", "copy"}
              /\ pc[r] = "done" => ErrorResponse(r)

\* A request with one key that passes and one unknown key has reached the
\* upstream without the unknown key.
C1_Witness ==
    \E r \in Reqs :
        /\ OnRpcPath(r) /\ upCalls[r] # <<>>
        /\ \E k \in DOMAIN InArgs(r) : k \notin DOMAIN rpc[r].Arguments
        /\ \E k \in DOMAIN InArgs(r) \cap Allowed(r) :
              DefaultMethodsValidator[inreq[r].body.Method].Arguments[k]
                  = "PrefixedLocation"

\* C2: a request whose method is not a key of the registry, torrent-rename-path
\* for one, gets the unknown-method error from MethodsValidator.Validate,
\* whatever its arguments, and is never forwarded.
C2_UnknownMethodRejected ==
    /\ "torrent-rename-path" \notin DOMAIN DefaultMethodsValidator
    /\ \A r \in Reqs : Parsed(r) /\ ~Registered(r) =>
          /\ upCalls[r] = <<>>
          /\ pc[r] \in {"rpcProxy", "validate", "validated", "done"}
          /\ pc[r] = "validated" => verr[r].msg = ErrUnknownMethod
          /\ pc[r] = "done" =>
                /\ ErrorResponse(r)
                /\ resp[r].status = StatusBadRequest
                /\ LoggedError(r) = <<"invalid RPC request", "unknown method">>

\* torrent-rename-path with two arguments was answered with the error.
C2_Witness ==
    \E r \in Reqs :
        /\ Parsed(r) /\ pc[r] = "done"
        /\ inreq[r].body.Method = "torrent-rename-path"
        /\ Cardinality(DOMAIN InArgs(r)) = 2
        /\ ErrorResponse(r)

\* The (method, key) pairs that carry a filesystem location.
LocationArgs ==
    {<<"torrent-set", "location">>, <<"torrent-set-location", "location">>,
     <<"torrent-add", "download-dir">>, <<"session-set", "download-dir">>}

\* C3: every location / download-dir argument that reaches the upstream on
\* the RPC path is a string starting with DOWNLOAD_PREFIX; a request carrying
\* such an argument with a string that does not start with the prefix fails
\* with the forbidden-location error and causes no upstream call.
C3_LocationPrefixed ==
    \A r \in Reqs : OnRpcPath(r) =>
        /\ \A i \in 1..Len(upCalls[r]) : \A ma \in LocationArgs :
              LET b == upCalls[r][i].body
              IN  b.Method = ma[1] /\ ma[2] \in DOMAIN b.Arguments =>
                     /\ b.Arguments[ma[2]].kind = "string"
                     /\ HasPrefix(b.Arguments[ma[2]].str, downloadPrefix)
        /\ \A ma \in LocationArgs :
              ( /\ Parsed(r) /\ inreq[r].body.Method = ma[1]
                /\ ma[2] \in DOMAIN InArgs(r)
                /\ InArgs(r)[ma[2]].kind = "string"
                /\ ~HasPrefix(InArgs(r)[ma[2]].str, downloadPrefix) ) =>
                     /\ upCalls[r] = <<>>
                     /\ pc[r] = "validated" =>
                           verr[r].msg = <<"bad argument", "forbidden location">>
                     /\ pc[r] = "done" =>
                           /\ ErrorResponse(r)
                           /\ LoggedError(r) = <<"invalid RPC request",
                                                 "bad argument",
                                                 "forbidden location">>

\* A session-set with an accepted download-dir has reached the upstream.
C3_Witness ==
    \E r \in Reqs :
        /\ upCalls[r] # <<>>
        /\ upCalls[r][1].body.Method = "session-set"
        /\ "download-dir" \in DOMAIN upCalls[r][1].body.Arguments

\* The names between the separators of a path.
Segments(path) == SelectSeq(path, LAMBDA t : t # "/")

\* The directory a list of names designates: ".." leaves the directory
\* reached so far, "." stays in it.
RECURSIVE Resolve(_, _)
Resolve(names, reached) ==
    IF names = <<>> THEN reached
    ELSE IF Head(names) = ".."
    THEN Resolve(Tail(names),
                 IF reached = <<>> THEN <<>>
                 ELSE SubSeq(reached, 1, Len(reached) - 1))
    ELSE IF Head(names) = "." THEN Resolve(Tail(names), reached)
    ELSE Resolve(Tail(names), Append(reached, Head(names)))

\* The location designated by `path` lies in the subtree rooted at `prefix`.
InSubtree(path, prefix) ==
    HasPrefix(Resolve(Segments(path), <<>>), Resolve(Segments(prefix), <<>>))

\* C4: every download-dir / location value the PrefixedLocation validator
\* lets through to the upstream designates a location in the subtree rooted
\* at DOWNLOAD_PREFIX, traversal through ".." included.
C4_ConfinedToSubtree ==
    \A r \in Reqs : \A i \in 1..Len(upCalls[r]) : \A ma \in LocationArgs :
        LET b == upCalls[r][i].body
        IN  ( /\ inreq[r].path = rpcPath
              /\ b.Method = ma[1]
              /\ ma[2] \in DOMAIN b.Arguments ) =>
                 /\ b.Arguments[ma[2]].kind = "string"
                 /\ InSubtree(b.Arguments[ma[2]].str, downloadPrefix)

\* The mapping f restricted to the keys in S.
Restrict(f, S) == [k \in DOMAIN f \cap S |-> f[k]]

\* Keys the README lists as skipped from settings updates.
SkippedSessionKeys ==
    {"incomplete-dir", "incomplete-dir-enabled", "peer-port",
     "peer-port-random-on-start", "script-torrent-added-enabled",
     "script-torrent-added-filename", "script-torrent-done-enabled",
     "script-torrent-done-filename", "script-torrent-done-seeding-enabled",
     "script-torrent-done-seeding-filename"}

\* C5: no registered method rejects unknown keys; a request to a registered
\* method whose allowed keys all pass their validators passes validation,
\* unknown keys or not, and what is forwarded is the original mapping
\* restricted to the allowed keys, values unchanged.  The keys named by the
\* claim are unknown to torrent-set and session-set.
C5_UnknownKeysDropped ==
    /\ "peer-port-random-on-start" \notin DOMAIN NewMethodTorrentSet.Arguments
    /\ SkippedSessionKeys \cap DOMAIN NewMethodSessionSet.Arguments = {}
    /\ \A m \in DOMAIN DefaultMethodsValidator :
          ~DefaultMethodsValidator[m].ErrorOnUnknown
    /\ \A r \in Reqs : Parsed(r) /\ Registered(r) /\ AllAllowedPass(r) =>
          LET kept == Restrict(InArgs(r), Allowed(r))
          IN  /\ pc[r] = "validated" =>
                    verr[r] = Nil /\ rpc[r].Arguments = kept
              /\ pc[r] \in {"proxy", "upstream", "copy"} =>
                    /\ outBody[r].Method = inreq[r].body.Method
                    /\ outBody[r].Arguments = kept
              /\ \A i \in 1..Len(upCalls[r]) :
                    upCalls[r][i].body.Arguments = kept
              /\ pc[r] \in {"upstream", "copy", "done"} => Len(upCalls[r]) = 1

\* A session-set with an accepted download-dir and incomplete-dir has reached
\* the upstream with the download-dir alone.
C5_Witness ==
    \E r \in Reqs :
        /\ Parsed(r) /\ inreq[r].body.Method = "session-set"
        /\ DOMAIN InArgs(r) = {"download-dir", "incomplete-dir"}
        /\ Len(upCalls[r]) = 1
        /\ DOMAIN upCalls[r][1].body.Arguments = {"download-dir"}

\* Request r is a session-set whose keys all belong to the allowed set.
SessionSetAllowedOnly(r) ==
    /\ Parsed(r)
    /\ inreq[r].body.Method = "session-set"
    /\ DOMAIN InArgs(r) \subseteq DOMAIN NewMethodSessionSet.Arguments

\* C6 as stated: a session-set whose keys all belong to the allowed set
\* passes validation with its mapping unchanged.
C6_SessionSetAllowedKeysPass ==
    \A r \in Reqs : SessionSetAllowedOnly(r) /\ pc[r] = "validated" =>
        verr[r] = Nil /\ rpc[r].Arguments = InArgs(r)

\* C6 as amended: for a session-set whose keys all belong to the allowed
\* set the mapping after validation equals the mapping before it, and
\* validation succeeds exactly when download-dir is absent or a string
\* starting with DOWNLOAD_PREFIX; otherwise it returns the bad-argument error.
C6_SessionSetAllowedKeysUnchanged ==
    \A r \in Reqs : SessionSetAllowedOnly(r) /\ pc[r] = "validated" =>
        /\ rpc[r].Arguments = InArgs(r)
        /\ verr[r] = Nil <=>
              \/ "download-dir" \notin DOMAIN InArgs(r)
              \/ /\ InArgs(r)["download-dir"].kind = "string"
                 /\ HasPrefix(InArgs(r)["download-dir"].str, downloadPrefix)
        /\ verr[r] # Nil =>
              /\ Head(verr[r].msg) = "bad argument"
              /\ verr[r].field = "download-dir"

\* A session-set with two allowed keys has passed validation.
C6_Witness ==
    \E r \in Reqs :
        /\ SessionSetAllowedOnly(r) /\ pc[r] = "validated"
        /\ DOMAIN InArgs(r) = {"download-dir", "seedRatioLimit"}
        /\ verr[r] = Nil

\* C7: the status of an error response follows from the failing stage alone,
\* with debug mode on and off: 400 for a body that does not parse, 400 for
\* an unknown method or a rejected argument, 500 for a failed
\* re-serialization, 502 for a transport failure to the upstream.
C7_StatusByStage ==
    \A r \in Reqs : pc[r] = "done" /\ ErrorResponse(r) =>
        LET stage == Head(LoggedError(r))
        IN  /\ stage = "failed to unmarshal RPC request" <=>
                  OnRpcPath(r) /\ ~Parsed(r)
            /\ stage = "invalid RPC request" <=> Parsed(r) /\ ~Valid(r)
            /\ stage = "upstream error" <=> upCalls[r] # <<>>
            /\ resp[r].status =
                  CASE stage = "failed to unmarshal RPC request" -> StatusBadRequest
                    [] stage = "invalid RPC request" -> StatusBadRequest
                    [] stage = "cannot serialize RPC request" -> StatusInternalServerError
                    [] stage = "upstream error" -> StatusBadGateway
                    [] OTHER -> 0

\* With debug mode off, a valid RPC request met a transport failure and was
\* answered with 502.
C7_Witness ==
    \E r \in Reqs :
        /\ ~debugMode /\ pc[r] = "done" /\ ErrorResponse(r)
        /\ Valid(r) /\ resp[r].status = StatusBadGateway

\* The log records of request r that carry correlation id `id`.
RecordsWithId(r, id) == {i \in 1..Len(logs[r]) : logs[r][i].errId = id}

\* C8: with debug mode off every error response embeds a correlation id that
\* no other error response carries, and exactly one log record, emitted for
\* the same request, carries that id as err_id.
C8_CorrelationIds ==
    ~debugMode =>
        \A r \in Reqs : ErrorResponse(r) =>
            /\ resp[r].errId # 0
            /\ Cardinality(RecordsWithId(r, resp[r].errId)) = 1
            /\ \A q \in Reqs \ {r} :
                  /\ ErrorResponse(q) => resp[q].errId # resp[r].errId
                  /\ RecordsWithId(q, resp[r].errId) = {}

\* With debug mode off two requests have both been answered with an error.
C8_Witness ==
    /\ ~debugMode
    /\ \E r, q \in Reqs :
          /\ r # q
          /\ pc[r] = "done" /\ ErrorResponse(r)
          /\ pc[q] = "done" /\ ErrorResponse(q)
          /\ LoggedError(r) # LoggedError(q)

\* C9: with debug mode off two error responses with the same tag and the same
\* status are identical but for the correlation id, whatever the errors were.
C9_GenericErrorBody ==
    ~debugMode =>
        \A r, q \in Reqs :
            ( /\ ErrorResponse(r) /\ ErrorResponse(q)
              /\ resp[r].tag = resp[q].tag
              /\ resp[r].status = resp[q].status ) =>
                 [resp[r] EXCEPT !.errId = 0] = [resp[q] EXCEPT !.errId = 0]

\* With debug mode off an unknown method and a forbidden location, both with
\* tag 7, have both been answered with 400.
C9_Witness ==
    /\ ~debugMode
    /\ \E r, q \in Reqs :
          /\ pc[r] = "done" /\ ErrorResponse(r)
          /\ pc[q] = "done" /\ ErrorResponse(q)
          /\ resp[r].tag = 7 /\ resp[q].tag = 7
          /\ resp[r].status = resp[q].status
          /\ LoggedError(r) = <<"invalid RPC request", "unknown method">>
          /\ LoggedError(q) = <<"invalid RPC request", "bad argument",
                                "forbidden location">>

\* Request r was answered in debug mode and carries a `location` that is not
\* a string, for a method that validates `location`.
MistypedLocationAnswered(r) ==
    /\ debugMode
    /\ Parsed(r) /\ Registered(r) /\ pc[r] = "done"
    /\ "location" \in DOMAIN InArgs(r) \cap Allowed(r)
    /\ InArgs(r)["location"].kind # "string"

\* C10 as stated: in debug mode such a request gets a 400 response whose
\* result begins with the capitalized form of "must be string".
C10_ResultBeginsMustBeString ==
    \A r \in Reqs : MistypedLocationAnswered(r) =>
        /\ resp[r].status = StatusBadRequest
        /\ Head(resp[r].text) = ToUpperFirst("must be string")

\* C10 as amended: in debug mode such a request gets a 400 response whose
\* result is the whole error chain with its first letter capitalized,
\* "Invalid RPC request: bad argument: must be string": it ends with "must
\* be string" and begins with "Invalid RPC request".
C10_ResultEndsMustBeString ==
    \A r \in Reqs : MistypedLocationAnswered(r) =>
        /\ resp[r].status = StatusBadRequest
        /\ resp[r].kind = "error"
        /\ resp[r].text =
              <<"Invalid RPC request", "bad argument", "must be string">>

\* A torrent-set with location 123 has been answered in debug mode.
C10_Witness ==
    \E r \in Reqs :
        /\ MistypedLocationAnswered(r)
        /\ inreq[r].body.Method = "torrent-set"
        /\ InArgs(r)["location"] = Num(123)

\* The forwarder sent request r and the upstream answered it.
Answered(r) == upCalls[r] # <<>> /\ upResp[r] # NoUpstreamResponse

\* io.Copy returned an error while request r was relayed.
CopyFailed(r) ==
    /\ logs[r] # <<>>
    /\ Head(LoggedError(r)) = "proxy: failed to write response"

\* Sequence s is the beginning of sequence t.
IsPrefix(s, t) == Len(s) <= Len(t) /\ s = SubSeq(t, 1, Len(s))

\* C11 as stated: when the forwarder sent the request and the upstream
\* answered, the client receives exactly the upstream's status code, every
\* value of every upstream header and the upstream body bytes in order, a
\* 3xx response included, and the upstream is never called a second time.
C11_RelayedExactly ==
    \A r \in Reqs : pc[r] = "done" /\ Answered(r) =>
        /\ wire[r].statusLines = <<upResp[r].status>>
        /\ wire[r].header = upResp[r].header
        /\ wire[r].body = upResp[r].body
        /\ Len(upCalls[r]) = 1

\* C11 as amended: the status code and every header value are relayed
\* exactly before any body byte, a 3xx response included, with one upstream
\* call; the body bytes follow in order, all of them when the copy succeeds
\* and a beginning of them when the copy fails, which is logged.
C11_RelayedUpToCopyFailure ==
    \A r \in Reqs : Answered(r) =>
        /\ pc[r] \in {"copy", "done"}
        /\ wire[r].statusLines = <<upResp[r].status>>
        /\ wire[r].header = upResp[r].header
        /\ Len(upCalls[r]) = 1
        /\ pc[r] = "copy" => wire[r].body = <<>>
        /\ pc[r] = "done" =>
              IF CopyFailed(r)
              THEN IsPrefix(wire[r].body, upResp[r].body)
              ELSE wire[r].body = upResp[r].body

\* A 302 of the upstream was relayed in full after one upstream call.
C11_Witness ==
    \E r \in Reqs :
        /\ pc[r] = "done" /\ Answered(r) /\ ~CopyFailed(r)
        /\ upResp[r].status = 302
        /\ wire[r].statusLines = <<302>>
        /\ wire[r].header["Location"] = <<<<"/", "elsewhere">>>>
        /\ wire[r].body = <<"b1">>

\* C12: an error response for an RPC request that was parsed with tag t
\* carries `tag` = t when t is not 0 and no `tag` field when t is 0 (the
\* field is written only for a tag other than 0, so tag 0 in the response
\* stands for its absence), whichever stage failed: validation,
\* serialization or the upstream call.  An error response for a request off
\* the RPC path, or for a body that did not parse, has no `tag` field.
C12_ErrorResponsesCarryTag ==
    \A r \in Reqs : resp[r].kind \in {"error", "notfound"} =>
        resp[r].tag = IF Parsed(r) THEN inreq[r].body.Tag ELSE 0

\* A valid RPC request with tag 7 met a failure of the upstream call and the
\* 502 response carries tag 7.
C12_Witness ==
    \E r \in Reqs :
        /\ pc[r] = "done" /\ ErrorResponse(r) /\ Valid(r)
        /\ inreq[r].body.Tag = 7
        /\ resp[r].status = StatusBadGateway
        /\ resp[r].tag = 7

\* The forwarder called the upstream for request r and c.Do returned an
\* error instead of a response.
UpstreamFailed(r) ==
    pc[r] = "done" /\ upCalls[r] # <<>> /\ upResp[r] = NoUpstreamResponse

\* C13: until the call to the upstream returns, the forwarder has written no
\* header, no status and no body byte; when the call fails, what is written
\* to the client is exactly one error response, with status 502.
C13_NothingWrittenBefore502 ==
    \A r \in Reqs :
        /\ pc[r] \in {"proxy", "upstream"} => wire[r] = NothingWritten
        /\ UpstreamFailed(r) =>
              /\ wire[r] = WriteErrorResponse(NothingWritten, StatusBadGateway)
              /\ ErrorResponse(r)
              /\ resp[r].status = StatusBadGateway
              /\ Head(LoggedError(r)) = "upstream error"

\* The upstream call of an asset request failed with the client still
\* connected, and the 502 is the only thing written.
C13_Witness ==
    \E r \in Reqs :
        /\ UpstreamFailed(r) /\ ~gone[r]
        /\ inreq[r].path = webPath
        /\ wire[r].statusLines = <<StatusBadGateway>>

\* The request the upstream received for request r.
Sent(r) == upCalls[r][1]

ErrorRecords(r) ==
    {i \in 1..Len(logs[r]) :
        /\ logs[r][i].level = "ERROR"
        /\ Head(logs[r][i].msg) # "proxy: failed to write response"}

\* C15: a failure of the parse, the validation, the serialization or the
\* upstream call produces exactly one error response and exactly one log
\* record of the failure (the records of keys dropped before it are
\* warnings of the validator, not records of the failure), and no later
\* stage runs: the handler is done, a request that failed before the
\* forwarder is not re-serialized and never reaches the upstream, and a
\* failed upstream call has nothing relayed.  For every inbound request the
\* upstream is called at most once and at most one status line is written.
C15_FailsOnce ==
    \A r \in Reqs :
        /\ Len(upCalls[r]) <= 1
        /\ Len(wire[r].statusLines) <= 1
        /\ Cardinality(ErrorRecords(r)) <= 1
        /\ ErrorRecords(r) # {} <=> ErrorResponse(r)
        /\ ErrorResponse(r) =>
              /\ pc[r] = "done"
              /\ wire[r].statusLines = <<resp[r].status>>
              /\ wire[r].body = <<"error json">>
              /\ ErrorRecords(r) = {Len(logs[r])}
              /\ \A i \in 1..(Len(logs[r]) - 1) : logs[r][i].level = "WARN"
              /\ upResp[r] = NoUpstreamResponse
              /\ LET stage == Head(LoggedError(r))
                 IN  /\ stage = "failed to unmarshal RPC request" =>
                           /\ rpc[r] = NoRpc /\ verr[r] = Nil
                           /\ Len(logs[r]) = 1
                     /\ stage \in {"failed to unmarshal RPC request",
                                   "invalid RPC request",
                                   "cannot serialize RPC request"} =>
                           /\ outBody[r] = EmptyBody
                           /\ ctxTag[r] = NoTag
                           /\ upCalls[r] = <<>>
                     /\ stage = "upstream error" => Len(upCalls[r]) = 1

\* A request failed validation after an unknown key had been dropped: the
\* warning of the dropped key and the one record of the failure are logged,
\* one 400 is written and the upstream was not called.
C15_Witness ==
    \E r \in Reqs :
        /\ pc[r] = "done" /\ ErrorResponse(r)
        /\ Head(LoggedError(r)) = "invalid RPC request"
        /\ Len(logs[r]) = 2 /\ logs[r][1].level = "WARN"
        /\ wire[r].statusLines = <<StatusBadRequest>>
        /\ upCalls[r] = <<>>

\* Request r has one outcome: one status line was written, and the response
\* is a relayed one exactly if the upstream answered.
OneOutcome(r) ==
    /\ Len(wire[r].statusLines) = 1
    /\ resp[r].kind \in {"relay", "error", "notfound", "redirect"}
    /\ resp[r].kind = "relay" <=> upResp[r] # NoUpstreamResponse

\* The one outcome of request r is a relayed upstream response or an error
\* response (of the Responder, or the 404 of homePage).
RelayedOrError(r) ==
    OneOutcome(r) /\ resp[r].kind \in {"relay", "error", "notfound"}

RECURSIVE ArgumentsAlone(_, _, _)
ArgumentsAlone(a, args, left) ==
    IF left = {} THEN {[err |-> Nil, args |-> args]}
    ELSE UNION {
        LET v == VisitKey(a, downloadPrefix, args, <<>>, key)
        IN  IF v.err # Nil THEN {[err |-> v.err, args |-> v.args]}
            ELSE ArgumentsAlone(a, v.args, left \ {key}) : key \in left}

\* What MethodsValidator.Validate returns for a request handled alone.
ValidateAlone(req) ==
    IF req.Method \notin DOMAIN DefaultMethodsValidator
    THEN {[err |-> UnknownMethod(req.Method), args |-> req.Arguments]}
    ELSE {[err |-> IF o.err = Nil THEN Nil ELSE WithMethod(o.err, req.Method),
           args |-> o.args] :
             o \in ArgumentsAlone(DefaultMethodsValidator[req.Method],
                                  req.Arguments, DOMAIN req.Arguments)}

\* The outcomes of validation for the inbound request r, handled alone.
Alone(r) == ValidateAlone(FromRequest(inreq[r].body).req)

\* C17: with several requests handled in any interleaving, each request's
\* validation result, forwarded arguments and error response are ones it
\* gets when handled alone; while a request is validated its mapping only
\* loses keys of its own that its own method does not allow; and the
\* registry with its allowed-key tables stays as main built it.
C17_SameAsAlone ==
    /\ validator = DefaultMethodsValidator
    /\ \A r \in Reqs : Parsed(r) /\ pc[r] # "rpcProxy" =>
          /\ rpc[r].Method = inreq[r].body.Method
          /\ rpc[r].Tag = inreq[r].body.Tag
          /\ \A k \in DOMAIN rpc[r].Arguments :
                k \in DOMAIN InArgs(r) /\ rpc[r].Arguments[k] = InArgs(r)[k]
          /\ \A k \in DOMAIN InArgs(r) \ DOMAIN rpc[r].Arguments :
                Registered(r) /\ k \notin Allowed(r)
          /\ pc[r] # "validate" =>
                \E o \in Alone(r) :
                    /\ verr[r] = o.err
                    /\ rpc[r].Arguments = o.args
                    /\ upCalls[r] # <<>> =>
                          /\ o.err = Nil
                          /\ Sent(r).body =
                                JsonBody(inreq[r].body.Method, o.args,
                                         inreq[r].body.Tag)
                    /\ o.err # Nil /\ pc[r] = "done" =>
                          [resp[r] EXCEPT !.errId = 0] =
                             renderErrorReturnID(debugMode, StatusBadRequest,
                                 WrapErr("invalid RPC request", o.err).msg,
                                 inreq[r].body.Tag, 0)

\* Two RPC requests were handled at once: one was forwarded without its
\* unknown key, the other was answered with its validation error.
C17_Witness ==
    \E r, q \in Reqs :
        /\ Parsed(r) /\ upCalls[r] # <<>>
        /\ DOMAIN InArgs(r) \ DOMAIN Sent(r).body.Arguments # {}
        /\ Parsed(q) /\ pc[q] = "done" /\ ErrorResponse(q)
        /\ Registered(q) /\ verr[q] # Nil

\* The relay of request r completed: the upstream answered and io.Copy
\* returned without an error.
RelayCompleted(r) == pc[r] = "done" /\ Answered(r) /\ ~CopyFailed(r)

OnForwardingRoute(r) ==
    \/ HasPrefix(inreq[r].path, webPath)
    \/ inreq[r].path = rootPath
    \/ /\ inreq[r].path = rpcPath /\ Parsed(r) /\ Valid(r)
       /\ verr[r] = Nil /\ pc[r] \in {"proxy", "upstream", "copy", "done"}

\* C19: a request reaches the upstream only on one of the three routes, and
\* a request for the RPC path is never forwarded without validation: what the
\* upstream receives for its RPC path comes from a request that was parsed
\* and validated.  (The part of the claim on the 404 for any other path is
\* not in this formula.)
C19_RpcOnlyAfterValidation ==
    \A r \in Reqs : upCalls[r] # <<>> =>
        /\ OnForwardingRoute(r)
        /\ Sent(r).path = rpcPath =>
              /\ Parsed(r) /\ Valid(r) /\ verr[r] = Nil
              /\ Sent(r).body = JsonMarshal(rpc[r]).bs

\* Validation of request r ended with an error of a registered method's
\* arguments validator.
ArgumentFailed(r) ==
    /\ Parsed(r) /\ Registered(r)
    /\ pc[r] \in {"validated", "done"}
    /\ verr[r] # Nil

\* The keys of request r the loop examined before the key it failed on.
VisitedBefore(r) == (DOMAIN InArgs(r) \ todo[r]) \ {verr[r].field}

\* C20: when an allowed key fails its field validator, Validate returns at
\* once with the bad-argument error that names the key, and examines no
\* further key: the keys it had not come to are all still in the mapping,
\* unknown ones included, and the keys it examined before were allowed keys
\* that passed or unknown keys that it dropped.  Every allowed key keeps its
\* original value, and the keys missing from the mapping are exactly the
\* unknown keys examined before the failing key.
C20_FailFast ==
    \A r \in Reqs : ArgumentFailed(r) =>
        LET k == verr[r].field
            args == rpc[r].Arguments
        IN  /\ k \in DOMAIN InArgs(r) /\ k \in Allowed(r) /\ ~KeyPasses(r, k)
            /\ Head(verr[r].msg) = "bad argument"
            /\ verr[r].method = inreq[r].body.Method
            /\ k \notin todo[r]
            /\ \A j \in VisitedBefore(r) : j \in Allowed(r) => KeyPasses(r, j)
            /\ \A j \in DOMAIN InArgs(r) :
                  (j \in Allowed(r) \/ j \in todo[r]) =>
                      j \in DOMAIN args /\ args[j] = InArgs(r)[j]
            /\ DOMAIN InArgs(r) \ DOMAIN args = VisitedBefore(r) \ Allowed(r)
            /\ DOMAIN args \subseteq DOMAIN InArgs(r)
            /\ {info[r][i] : i \in 1..Len(info[r])} =
                  VisitedBefore(r) \ Allowed(r)

\* A torrent-set failed on its location before the loop came to the unknown
\* key incomplete-dir, which is still in the mapping.
C20_Witness ==
    \E r \in Reqs :
        /\ ArgumentFailed(r)
        /\ inreq[r].body.Method = "torrent-set"
        /\ verr[r].field = "location"
        /\ todo[r] = {"incomplete-dir"}
        /\ "incomplete-dir" \in DOMAIN rpc[r].Arguments

\* The inbound arguments of request r hold a key its method does not allow.
HasUnknownKey(r) == DOMAIN InArgs(r) \ Allowed(r) # {}

\* Validation of request r has returned.
ValidationReturned(r) ==
    pc[r] \in {"validated", "proxy", "upstream", "copy", "done"}

\* C21: with ErrorOnUnknown true, a request whose arguments hold a key
\* outside the allowed set is rejected: validation returns either the
\* forbidden-field error naming an unknown key of the request, or the
\* bad-argument error of an allowed key that fails its field validator and
\* was visited first; the request is answered with 400 and never reaches
\* the upstream.  Validate deletes no key and records no diagnostic: the
\* mapping stays the one the parser returned, at every step.
C21_UnknownKeyRejected ==
    \A r \in Reqs : (Parsed(r) /\ Registered(r) /\ pc[r] # "rpcProxy") =>
        /\ validator[inreq[r].body.Method].ErrorOnUnknown
        /\ rpc[r].Arguments = InArgs(r)
        /\ info[r] = <<>>
        /\ (ValidationReturned(r) /\ HasUnknownKey(r)) =>
              /\ verr[r] # Nil
              /\ verr[r].method = inreq[r].body.Method
              /\ verr[r].field \in DOMAIN InArgs(r)
              /\ \/ /\ verr[r].msg = ErrForbiddenField
                    /\ verr[r].field \notin Allowed(r)
                 \/ /\ Head(verr[r].msg) = "bad argument"
                    /\ verr[r].field \in Allowed(r)
                    /\ ~KeyPasses(r, verr[r].field)
              /\ upCalls[r] = <<>>
              /\ pc[r] = "done" =>
                    /\ ErrorResponse(r)
                    /\ resp[r].status = StatusBadRequest

\* A session-set with an allowed key and the unknown key incomplete-dir was
\* rejected with the forbidden-field error naming incomplete-dir, after the
\* loop had visited the allowed key; both keys are still in the mapping.
C21_Witness ==
    \E r \in Reqs :
        /\ Parsed(r) /\ Registered(r) /\ pc[r] = "done"
        /\ validator[inreq[r].body.Method].ErrorOnUnknown
        /\ verr[r].msg = ErrForbiddenField
        /\ verr[r].field \notin Allowed(r)
        /\ Cardinality(DOMAIN InArgs(r)) = 2
        /\ todo[r] = {}
        /\ DOMAIN rpc[r].Arguments = DOMAIN InArgs(r)
        /\ resp[r].status = StatusBadRequest

\* The handler of request r wrote the upstream's status and returned without
\* having copied the whole body: io.Copy returned an error.
CopyBroken(r) ==
    /\ pc[r] = "done"
    /\ Answered(r)
    /\ resp[r].text # <<"upstream body">>

\* The records of request r that report a failed copy.
CopyFailureRecords(r) ==
    {i \in 1..Len(logs[r]) :
        Head(logs[r][i].msg) = "proxy: failed to write response"}

\* The records of request r the Responder wrote: only they carry a
\* correlation id.
ResponderRecords(r) == {i \in 1..Len(logs[r]) : logs[r][i].errId # 0}

\* C22: when io.Copy fails after the upstream's status was written, the
\* failure is logged in one ERROR record, the last of the request; the
\* upstream was called once; the Responder was not invoked (no record with a
\* correlation id, no id handed to the client); and the client has one
\* status line, the upstream's, the upstream's headers and nothing but a
\* beginning of the upstream's body: no JSON error body, no Content-Type or
\* X-Content-Type-Options of the Responder's.
C22_CopyFailureOnlyLogged ==
    \A r \in Reqs : CopyBroken(r) =>
        /\ CopyFailed(r)
        /\ Cardinality(CopyFailureRecords(r)) = 1
        /\ logs[r][Len(logs[r])].level = "ERROR"
        /\ Len(upCalls[r]) = 1
        /\ ResponderRecords(r) = {}
        /\ ErrorRecords(r) = {}
        /\ resp[r].kind = "relay"
        /\ resp[r].errId = 0
        /\ resp[r].status = upResp[r].status
        /\ wire[r].statusLines = <<upResp[r].status>>
        /\ wire[r].header = CopyHeader(NoHeader, upResp[r].header)
        /\ IsPrefix(wire[r].body, upResp[r].body)
        /\ \A i \in 1..Len(wire[r].body) : wire[r].body[i] # "error json"

\* The copy of a 200 with a body of two pieces failed after the first, on an
\* RPC request whose client had disconnected.
C22_Witness ==
    \E r \in Reqs :
        /\ CopyBroken(r)
        /\ gone[r]
        /\ inreq[r].path = rpcPath
        /\ upResp[r].status = 200
        /\ Len(upResp[r].body) = 2
        /\ Len(wire[r].body) = 1
        /\ wire[r].statusLines = <<200>>

\* The orders in which a range loop can produce the keys S.
Orders(S) ==
    {o \in [1..Cardinality(S) -> S] :
        \A i, j \in 1..Cardinality(S) : i # j => o[i] # o[j]}

\* The elements of a sequence.
Range(s) == {s[i] : i \in 1..Len(s)}

\* What Validate returns for the inbound arguments of request r under the
\* registry `reg`, for every order of the visit.
Runs(r, reg) ==
    {MethodArgumentsValidator_Validate(reg[inreq[r].body.Method],
                                       downloadPrefix, InArgs(r), <<>>, o) :
        o \in Orders(DOMAIN InArgs(r))}

\* C23: the decision of MethodArgumentsValidator.Validate does not depend on
\* the order in which the range loop produces the keys.  For the arguments
\* of every request, under either policy for unknown keys, any two orders
\* both accept or both reject, and when they accept they leave the same
\* mapping and the same set of skipped keys.  What the handler ends
\* validation with is the result of one of these orders.
C23_OrderIndependent ==
    \A r \in Reqs : (Parsed(r) /\ Registered(r) /\ pc[r] # "rpcProxy") =>
        /\ \A reg \in {DefaultMethodsValidator, StrictMethodsValidator} :
              LET runs == Runs(r, reg)
              IN  \A x, y \in runs :
                      /\ x.err = Nil <=> y.err = Nil
                      /\ x.err = Nil =>
                            /\ x.args = y.args
                            /\ Range(x.info) = Range(y.info)
        /\ ValidationReturned(r) =>
              \E o \in Orders(DOMAIN InArgs(r)) :
                  LET x == MethodArgumentsValidator_Validate(
                               validator[inreq[r].body.Method],
                               downloadPrefix, InArgs(r), <<>>, o)
                  IN  /\ verr[r] = IF x.err = Nil THEN Nil
                                   ELSE WithMethod(x.err, inreq[r].body.Method)
                      /\ rpc[r].Arguments = x.args
                      /\ info[r] = x.info

\* A request with an unknown key and an allowed key that fails was rejected,
\* and the loop had come to the unknown key first: the other order rejects
\* it as well, without the diagnostic.
C23_Witness ==
    \E r \in Reqs :
        /\ Parsed(r) /\ Registered(r) /\ pc[r] = "validated"
        /\ Cardinality(DOMAIN InArgs(r)) = 2
        /\ verr[r] # Nil
        /\ Len(info[r]) = 1
        /\ \E x \in Runs(r, validator) : x.err # Nil /\ x.info = <<>>

\* The members of the JSON object json.Marshal writes for the method, the
\* mapping and the tag given.
MarshalledFields(arguments, tag) ==
    {"method"} \cup (IF arguments = <<>> THEN {} ELSE {"arguments"})
               \cup (IF tag = 0 THEN {} ELSE {"tag"})

\* C24: the body sent upstream for a request on the RPC path is the
\* re-serialization of the validated request.  Its members are `method`
\* (the inbound method), `arguments` (the inbound mapping without the keys
\* the method does not allow; left out when that is empty) and `tag` (the
\* inbound tag; left out when it is 0), and no other: a further top-level
\* member of the inbound object is not forwarded.  The forwarder is handed
\* these bytes, never the inbound ones, which the parser has read to the
\* end: while the request is parsed and validated there is nothing left to
\* forward.
C24_ForwardedBodyReserialized ==
    \A r \in Reqs : OnRpcPath(r) =>
        /\ pc[r] \in {"validate", "validated"} => outBody[r] = EmptyBody
        /\ upCalls[r] # <<>> =>
              LET b == Sent(r).body
                  in == FromRequest(inreq[r].body).req
                  filtered == Restrict(in.Arguments,
                                       DOMAIN in.Arguments \cap Allowed(r))
              IN  /\ Parsed(r) /\ Registered(r)
                  /\ Len(upCalls[r]) = 1
                  /\ b = JsonMarshal(rpc[r]).bs
                  /\ b.kind = "json"
                  /\ b.fields = MarshalledFields(filtered, in.Tag)
                  /\ b.fields \subseteq {"method", "arguments", "tag"}
                  /\ b.fields \cap OtherFields = {}
                  /\ b.Method = in.Method
                  /\ b.Arguments = filtered
                  /\ b.Tag = in.Tag
                  /\ b # inreq[r].body =>
                        \/ inreq[r].body.fields # b.fields
                        \/ DOMAIN in.Arguments \ Allowed(r) # {}

\* A torrent-set was forwarded whose inbound object had a top-level member
\* `location`, a tag of 0 and, as its only argument, a key the method does
\* not allow: the body sent has the member `method` alone.
C24_Witness ==
    \E r \in Reqs :
        /\ OnRpcPath(r) /\ upCalls[r] # <<>>
        /\ inreq[r].body.fields = {"method", "arguments", "tag", "location"}
        /\ inreq[r].body.Tag = 0
        /\ DOMAIN inreq[r].body.Arguments = {"incomplete-dir"}
        /\ Sent(r).body.fields = {"method"}
        /\ Sent(r).body.Arguments = <<>>

====
